---- MODULE Spec2Model ----
(***************************************************************************)
(* A model of the config-ninja synchronization engine:                     *)
(*   - the codec registry (backend.py),                                    *)
(*   - the controller's fetch / decode / render / write / hook cycle       *)
(*     (controller.py),                                                    *)
(*   - the hook engine built on poethepoet (hooks.py),                     *)
(*   - the concurrent polling of several objects (cli.py, poll_all),       *)
(*   - the AppConfig polling loop (contrib/appconfig.py),                  *)
(*   - the SecretsManager polling loop driven by awrite                    *)
(*     (contrib/secretsmanager.py),                                        *)
(*   - the resolution of names by AppConfigBackend.new                     *)
(*     (contrib/appconfig.py),                                             *)
(*   - the loading of the settings and of the hooks of an object           *)
(*     (settings/__init__.py).                                             *)
(*                                                                         *)
(* Texts are tagged pairs <<tag, body>>: <<"plain", s>> is the text s,     *)
(* <<"json", m>> is the JSON document that serializes the mapping m (and   *)
(* likewise for "yaml" and "toml").  Mappings are functions from keys to   *)
(* texts.  Results of operations that may raise are tagged pairs           *)
(* <<"ok", value>> or <<"err", reason>>.                                   *)
(***************************************************************************)
EXTENDS Integers, Sequences, FiniteSets, TLC

VARIABLES
    \* ---- one controller (controller.py) and the hook engine (hooks.py)
    mode,        \* "apply": write(), "sync": awrite(), "get": get(), "watch": aget()
    src_format,  \* BackendController.src_format
    dest_format, \* DestSpec.format: <<"fmt", f>> or <<"tpl", variable>>
    hooks,       \* ObjectSpec.hooks: the ordered hook names of the object
    deps,        \* the task graph: the "deps" option of every poethepoet task
    ctl_pc,      \* position of the controller
    data,        \* the decoded mapping of the current iteration, as a result
    dest_file,   \* contents of dest.path
    fetched,     \* payloads returned by backend.get() / yielded by backend.poll()
    writes,      \* texts written to dest.path, in order
    hook_i,      \* index in hooks of the hook being called
    invoked,     \* log of the Hook.__call__ invocations of the current iteration
    runs,        \* log of the PoeTask.run invocations of the current iteration
    plan,        \* the execution plan being walked by run_task_graph
    stage_i,     \* index of the current stage of plan
    task_i,      \* index of the current task in the stage
    ctl_err,     \* the exception that ended the operation
    printed,     \* texts passed to do_print, in order
    parent_dir,  \* whether the directory dest.path.parent exists
    systemd,     \* SYSTEMD_AVAILABLE
    notified,    \* number of READY=1 messages sent to the init system
    \* ---- poll_all (cli.py)
    pa_status,    \* per object: state of its aget()/awrite() task
    pa_processed, \* per object: number of updates its loop has processed
    pa_main,      \* state of the poll_all coroutine awaiting asyncio.gather
    pa_cause,     \* why the event loop was shut down
    \* ---- AppConfigBackend.poll (contrib/appconfig.py)
    ac_pc,        \* position of the generator
    ac_interval,  \* the interval argument of poll()
    ac_token,     \* the local variable token
    ac_next,      \* resp['NextPollIntervalInSeconds'] of the last response
    ac_events,    \* log of requests, responses, sleeps and yields
    ac_nreq,      \* number of get_latest_configuration requests made
    \* ---- SecretsManagerBackend.poll driven by awrite (contrib/secretsmanager.py)
    sm_pc,         \* position of the generator and of the loop of awrite
    sm_version_id, \* SecretsManagerBackend.version_id, 0 for None
    sm_current,    \* provider: the version staged AWSCURRENT, 0 when there is none
    sm_changes,    \* provider: number of changes of the staging so far
    sm_seen,       \* the local variable version_id of the cycle, 0 when unset
    sm_content,    \* the value handed over by "yield self.get()"
    sm_file,       \* contents of dest.path
    sm_log,        \* log of the latest cycles of the loop
    \* ---- AppConfigBackend.new (contrib/appconfig.py)
    nw_pc,        \* position of new()
    nw_ids,       \* provider: per lookup, the ids the paginated search returns
    nw_step,      \* which of the three lookups of new() is next
    nw_resolved,  \* the ids resolved by the construction under way
    nw_calls,     \* number of calls of new() so far
    nw_built,     \* number of backends new() has returned
    nw_lookups,   \* number of calls of _get_id_from_name
    nw_searches,  \* number of paginated searches sent to the provider
    nw_warned,    \* the lookups <<call, step>> that emitted a RuntimeWarning
    nw_err,       \* the exception raised by new()
    \* ---- settings.load and ObjectSpec.from_primitives (settings/__init__.py)
    st_pc,        \* position: load, construct, constructed, operating, failed
    st_file,      \* the settings file: is poethepoet installed, the tasks it defines
    st_data,      \* the "hooks" entry of the object: absent, or a list of names
    st_engine,    \* Config.engine: absent, or the tasks of the HooksEngine
    st_hooks,     \* ObjectSpec.hooks of the constructed object
    st_ops,       \* number of fetches, writes and hook calls done for the object
    st_err,       \* the exception raised by the construction
    st_msg,       \* what its message names: << >>, or <<hook name, options>>
    \* ---- the hook command (cli.py)
    hk_pc,        \* position of the command
    hk_engine,    \* conf.engine: absent, or the tasks of the HooksEngine
    hk_names,     \* the hook names given on the command line
    hk_i,         \* index in hk_names of the name being handled
    hk_executed,  \* the names handed to HooksEngine.execute, in order
    hk_err,       \* the exception that ended the command, as Hook reports it
    hk_out,       \* the lines the command printed
    hk_exit,      \* the exit status of the command, -1 while it runs
    \* ---- LocalBackend.poll (contrib/local.py)
    lc_pc,        \* position of the generator
    lc_file,      \* contents of the watched file, or absent
    lc_notes,     \* number of change notifications awatch has delivered
    lc_yields,    \* the payloads the generator has yielded, in order
    lc_err,       \* the exception raised out of the generator
    \* ---- a decode and an encode through the codec registry (backend.py)
    cd_pc,        \* number of codec calls made: 0, 1 or 2
    cd_fmt,       \* the format both calls use
    cd_in,        \* the value given: <<"text", t>> or <<"map", d>>
    cd_mid,       \* the result of the first call, <<"err", e>> when it raised
    cd_out,       \* the result of the second call
    \* ---- the apply command without --poll (cli.py)
    ap_pc,        \* position of the command: run, done, failed
    ap_keys,      \* the selected keys, in the order of the command
    ap_inputs,    \* per object: does its construction raise, does its write() raise
    ap_old,       \* per object: the destination file before the command
    ap_files,     \* per object: the destination file
    ap_built,     \* number of controllers the list comprehension has built
    ap_applied,   \* number of controllers whose write() has returned
    ap_err        \* what raised out of the command: none, construct, apply

ctl_vars == <<mode, src_format, dest_format, hooks, deps, ctl_pc, data, dest_file,
              fetched, writes, hook_i, invoked, runs, plan, stage_i, task_i, ctl_err,
              printed, parent_dir, systemd, notified>>
pa_vars == <<pa_status, pa_processed, pa_main, pa_cause>>
ac_vars == <<ac_pc, ac_interval, ac_token, ac_next, ac_events, ac_nreq>>
sm_vars == <<sm_pc, sm_version_id, sm_current, sm_changes, sm_seen, sm_content,
             sm_file, sm_log>>
nw_vars == <<nw_pc, nw_ids, nw_step, nw_resolved, nw_calls, nw_built, nw_lookups,
             nw_searches, nw_warned, nw_err>>
st_vars == <<st_pc, st_file, st_data, st_engine, st_hooks, st_ops, st_err, st_msg>>
hk_vars == <<hk_pc, hk_engine, hk_names, hk_i, hk_executed, hk_err, hk_out, hk_exit>>
core_vars == <<ctl_vars, pa_vars, ac_vars, sm_vars, nw_vars, st_vars>>
lc_vars == <<lc_pc, lc_file, lc_notes, lc_yields, lc_err>>
cd_vars == <<cd_pc, cd_fmt, cd_in, cd_mid, cd_out>>
ap_vars == <<ap_pc, ap_keys, ap_inputs, ap_old, ap_files, ap_built, ap_applied, ap_err>>
ext_vars == <<hk_vars, lc_vars, cd_vars, ap_vars>>
vars == <<core_vars, ext_vars>>

\* what the actions of one component leave alone: the other components
ctl_frame == <<pa_vars, ac_vars, sm_vars, nw_vars, st_vars, ext_vars>>
pa_frame == <<ctl_vars, ac_vars, sm_vars, nw_vars, st_vars, ext_vars>>
ac_frame == <<ctl_vars, pa_vars, sm_vars, nw_vars, st_vars, ext_vars>>
sm_frame == <<ctl_vars, pa_vars, ac_vars, nw_vars, st_vars, ext_vars>>
nw_frame == <<ctl_vars, pa_vars, ac_vars, sm_vars, st_vars, ext_vars>>
st_frame == <<ctl_vars, pa_vars, ac_vars, sm_vars, nw_vars, ext_vars>>
hk_frame == <<core_vars, lc_vars, cd_vars, ap_vars>>
lc_frame == <<core_vars, hk_vars, cd_vars, ap_vars>>
cd_frame == <<core_vars, hk_vars, lc_vars, ap_vars>>
ap_frame == <<core_vars, hk_vars, lc_vars, cd_vars>>

----------------------------------------------------------------------------
(* Bounds of the model *)

\* longest hook list of an object
MaxHooks == 2
\* number of payloads a sync() loop processes before the model stops it
MaxIter == 2
\* number of objects polled together by poll_all
NumObjects == 2
\* number of updates one object's loop processes before the model stops it
MaxUpdates == 3
\* number of get_latest_configuration requests before the model stops the loop
MaxRequests == 4
\* number of versions of the secret
MaxVersions == 2
\* number of times the provider moves the AWSCURRENT staging label
MaxChanges == 2
\* number of cycles of SecretsManagerBackend.poll the log keeps (the latest ones)
MaxLog == 3
\* number of calls of AppConfigBackend.new with the same names
MaxConstructions == 3
\* largest number of ids the provider returns for one name
MaxMatches == 2

----------------------------------------------------------------------------
(* backend.py: the codec registry *)

NoErr == "none"

Plain(s) == <<"plain", s>>
K1 == [k |-> Plain("1")]
K2 == [k |-> Plain("2")]

\* payloads a source may return
Payloads == {Plain("a"), <<"json", K1>>, <<"json", K2>>}

FormatT == {"json", "raw", "toml", "yaml", "yml"}

load_raw(raw) == [content |-> raw]

DumpRawWhole(d) == <<"ok", <<"json", d>>>>
dump_raw(d) ==
    IF "content" \in DOMAIN d THEN <<"ok", d["content"]>> ELSE <<"err", "KeyError">>

\* the parsers json.loads, toml.loads, yaml.safe_load: a text parses under a
\* format when it is a document of that format (YAML also reads JSON documents)
Parses(fmt, raw) ==
    CASE fmt = "json" -> raw[1] = "json"
      [] fmt = "toml" -> raw[1] = "toml"
      [] fmt \in {"yaml", "yml"} -> raw[1] \in {"yaml", "json"}
      [] OTHER -> FALSE

LOADERS(fmt, raw) ==
    IF fmt = "raw" THEN <<"ok", load_raw(raw)>>
    ELSE IF Parses(fmt, raw) THEN <<"ok", raw[2]>>
    ELSE <<"err", "ParseError">>

DUMPERS(fmt, d) ==
    CASE fmt = "raw" -> dump_raw(d)
      [] fmt = "json" -> <<"ok", <<"json", d>>>>
      [] fmt = "toml" -> <<"ok", <<"toml", d>>>>
      [] fmt \in {"yaml", "yml"} -> <<"ok", <<"yaml", d>>>>

dumps(fmt, d) ==
    IF fmt \in FormatT THEN DUMPERS(fmt, d) ELSE <<"err", "ValueError">>

loads(fmt, raw) ==
    IF fmt \in FormatT THEN LOADERS(fmt, raw) ELSE <<"err", "ValueError">>

----------------------------------------------------------------------------
(* controller.py: DestSpec and BackendController._do *)

NoFile == <<"absent", "">>

\* the template files of the model: file name -> the variable it substitutes
TemplateVar(name) == IF name = "k.j2" THEN "k" ELSE "content"

FromPrimitivesAlwaysFormat(format) == <<"fmt", format>>
from_primitives(format) ==
    IF format \in FormatT THEN <<"fmt", format>> ELSE <<"tpl", TemplateVar(format)>>

is_template(dest) == dest[1] = "tpl"

\* jinja2.Template.render: an undefined variable renders as the empty text
TemplateRender(var, d) ==
    IF var \in DOMAIN d THEN <<"ok", d[var]>> ELSE <<"ok", Plain("")>>

\* the text _do hands to its action
Rendered(dest, d) ==
    IF is_template(dest) THEN TemplateRender(dest[2], d) ELSE dumps(dest[2], d)

\* pathlib.Path.write_text: the file is truncated and holds the text alone
WriteTextKeepsOld(old, text) == IF old = NoFile THEN text ELSE old
write_text(old, text) == text

\* _do(action, data): the texts it passes to action (none when rendering raises)
DoSkipsAction(dest, d) == << >>
Do(dest, d) ==
    LET r == Rendered(dest, d) IN
    IF r[1] = "ok" THEN <<r[2]>> ELSE << >>

\* the render of a payload by a controller, as a result
RenderOf(sfmt, dest, raw) ==
    LET l == loads(sfmt, raw) IN
    IF l[1] = "ok" THEN Rendered(dest, l[2]) ELSE l

----------------------------------------------------------------------------
(* hooks.py: the task graph and the outcomes of tasks *)

Tasks == {"h1", "h2", "h3"}
TaskOrder == <<"h1", "h2", "h3">>

NoDeps == [t \in Tasks |-> {}]
\* the task graphs of the model: none, h2 <- h1, a chain, and a join
DepGraphs ==
    { NoDeps,
      [NoDeps EXCEPT !["h2"] = {"h1"}],
      [NoDeps EXCEPT !["h2"] = {"h1"}, !["h3"] = {"h2"}],
      [NoDeps EXCEPT !["h3"] = {"h1", "h2"}] }

\* what PoeTask.run does: returns 0, returns a non-zero status, or raises
\* poethepoet.exceptions.ExecutionError
TaskOutcomes == {"zero", "nonzero", "raise"}

NoError == [type |-> NoErr, msg |-> "", task |-> ""]
Error(type, msg, task) == [type |-> type, msg |-> msg, task |-> task]

\* PoeTask.has_deps()
has_deps(g, task) == g[task] # {}

\* the tasks a task depends on, directly or not
RECURSIVE Upstream(_, _, _)
Upstream(g, task, n) ==
    IF n = 0 THEN {}
    ELSE g[task] \cup UNION {Upstream(g, d, n - 1) : d \in g[task]}

SeqOf(S) == SelectSeq(TaskOrder, LAMBDA t : t \in S)

\* TaskExecutionGraph(task, ctx).get_execution_plan(): stages of tasks whose
\* dependencies are all in earlier stages; the sink task ends the last stage
RECURSIVE Stages(_, _, _)
Stages(g, nodes, visited) ==
    LET ready == {n \in nodes \ visited : g[n] \subseteq visited} IN
    IF ready = {} THEN << >>
    ELSE <<SeqOf(ready)>> \o Stages(g, nodes, visited \cup ready)

PlanOfSinkAlone(g, task) == <<<<task>>>>
get_execution_plan(g, task) ==
    Stages(g, Upstream(g, task, Cardinality(Tasks)) \cup {task}, {})

RECURSIVE Flatten(_)
Flatten(p) == IF p = << >> THEN << >> ELSE Head(p) \o Flatten(Tail(p))

\* hooks.py:137, the branch of execute()
UsesGraphNever(g, task) == FALSE
UsesGraph(g, task) == has_deps(g, task)

\* hooks.py:191, "if stage_task == task"
IsSinkNever(stage_task, task) == FALSE
IsSink(stage_task, task) == stage_task = task

\* hooks.py:197, "if task_result"
TaskFailedNever(task_result) == FALSE
TaskFailed(task_result) == task_result = "nonzero"

\* hooks.py:174-178, run_task: the exception it lets through; the value
\* returned by task.run is dropped
run_task(task, outcome) ==
    IF outcome = "raise" THEN Error("ExecutionError", "error running task", task)
    ELSE NoError

Aborted(task) == Error("ExecutionError", "Task graph aborted after failed task", task)

----------------------------------------------------------------------------
(* controller.py: BackendController.write ("apply") and awrite ("sync") *)

\* the formats of the objects of the model: <<source format, dest format>>;
\* "ini" is a source format the codec registry does not hold
Formats == {<<"raw", "raw">>, <<"json", "yaml">>, <<"json", "k.j2">>, <<"ini", "raw">>}

RECURSIVE SeqsUpTo(_, _)
SeqsUpTo(S, n) ==
    IF n = 0 THEN {<< >>}
    ELSE LET shorter == SeqsUpTo(S, n - 1) IN
         shorter \cup {Append(q, x) : q \in shorter, x \in S}

PAIdle ==
    /\ pa_status = << >>
    /\ pa_processed = << >>
    /\ pa_main = "idle"
    /\ pa_cause = "none"

CtlIdle ==
    /\ mode = "idle"
    /\ src_format = "raw"
    /\ dest_format = <<"fmt", "raw">>
    /\ hooks = << >>
    /\ deps = << >>
    /\ ctl_pc = "idle"
    /\ data = <<"err", "unset">>
    /\ dest_file = <<"absent", "">>
    /\ fetched = << >>
    /\ writes = << >>
    /\ hook_i = 0
    /\ invoked = << >>
    /\ runs = << >>
    /\ plan = << >>
    /\ stage_i = 0
    /\ task_i = 0
    /\ ctl_err = [type |-> "none", msg |-> "", task |-> ""]
    /\ printed = << >>
    /\ parent_dir = TRUE
    /\ systemd = FALSE
    /\ notified = 0

ACIdle ==
    /\ ac_pc = "idle"
    /\ ac_interval = 0
    /\ ac_token = 0
    /\ ac_next = 0
    /\ ac_events = << >>
    /\ ac_nreq = 0

SMIdle ==
    /\ sm_pc = "idle"
    /\ sm_version_id = 0
    /\ sm_current = 0
    /\ sm_changes = 0
    /\ sm_seen = 0
    /\ sm_content = <<"none", "">>
    /\ sm_file = <<"absent", "">>
    /\ sm_log = << >>

NWIdle ==
    /\ nw_pc = "idle"
    /\ nw_ids = << >>
    /\ nw_step = 0
    /\ nw_resolved = << >>
    /\ nw_calls = 0
    /\ nw_built = 0
    /\ nw_lookups = 0
    /\ nw_searches = 0
    /\ nw_warned = {}
    /\ nw_err = "none"

STIdle ==
    /\ st_pc = "idle"
    /\ st_file = [installed |-> FALSE, tasks |-> {}]
    /\ st_data = <<"absent", << >>>>
    /\ st_engine = <<"absent", {}>>
    /\ st_hooks = << >>
    /\ st_ops = 0
    /\ st_err = "none"
    /\ st_msg = << >>

HKIdle ==
    /\ hk_pc = "idle"
    /\ hk_engine = <<"absent", {}>>
    /\ hk_names = << >>
    /\ hk_i = 0
    /\ hk_executed = << >>
    /\ hk_err = <<"none", "", << >>>>
    /\ hk_out = << >>
    /\ hk_exit = -1

LCIdle ==
    /\ lc_pc = "idle"
    /\ lc_file = <<"absent", "">>
    /\ lc_notes = 0
    /\ lc_yields = << >>
    /\ lc_err = "none"

CDIdle ==
    /\ cd_pc = -1
    /\ cd_fmt = "raw"
    /\ cd_in = <<"none", "">>
    /\ cd_mid = <<"none", "">>
    /\ cd_out = <<"none", "">>

APIdle ==
    /\ ap_pc = "idle"
    /\ ap_keys = << >>
    /\ ap_inputs = << >>
    /\ ap_old = << >>
    /\ ap_files = << >>
    /\ ap_built = 0
    /\ ap_applied = 0
    /\ ap_err = "none"

\* the command line programs, the local backend and the codecs are not under way
ExtIdle == HKIdle /\ LCIdle /\ CDIdle /\ APIdle

\* AppConfigBackend.new and the loading of the settings are not under way
OthersIdle == NWIdle /\ STIdle /\ ExtIdle

\* the operations of a controller: write(), awrite(), get(), aget()
Modes == {"apply", "sync", "get", "watch"}

\* awrite() and aget() loop over backend.poll(); write() and get() run once
Polls(m) == m \in {"sync", "watch"}

\* the action the operation hands to _do
ActionAlwaysWrites(m) == "write_text"
ActionOf(m) == IF m \in {"get", "watch"} THEN "do_print" ELSE "write_text"

\* pathlib.Path.write_text opens dest.path for writing: FileNotFoundError when
\* the parent directory does not exist
PathWriteText(parent, old, text) ==
    IF parent THEN <<"ok", write_text(old, text)>>
    ELSE <<"err", "FileNotFoundError">>

\* "if SYSTEMD_AVAILABLE:" guards the call of systemd.notify()
NotifyCalled(available) == available

\* the controller after construction, before an operation is called
CtlInit ==
    /\ mode \in Modes
    /\ \E f \in Formats :
          /\ src_format = f[1]
          /\ dest_format = from_primitives(f[2])
    /\ hooks \in SeqsUpTo(Tasks, MaxHooks)
    /\ deps \in DepGraphs
    /\ ctl_pc = IF Polls(mode) THEN "notify" ELSE "fetch"
    /\ data = <<"err", "unset">>
    /\ dest_file \in {NoFile, Plain("old")}
    /\ fetched = << >>
    /\ writes = << >>
    /\ hook_i = 0
    /\ invoked = << >>
    /\ runs = << >>
    /\ plan = << >>
    /\ stage_i = 0
    /\ task_i = 0
    /\ ctl_err = NoError
    /\ printed = << >>
    \* the flags that the operation never reads are left at one value
    /\ parent_dir \in IF ActionOf(mode) = "write_text" THEN BOOLEAN ELSE {TRUE}
    /\ systemd \in IF Polls(mode) THEN BOOLEAN ELSE {FALSE}
    /\ notified = 0

Raise(err) ==
    /\ ctl_pc' = "failed"
    /\ ctl_err' = err

\* "data = loads(self.src_format, self.backend.get())" and, in awrite, the
\* next value of "async for content in self.backend.poll()"
Fetch ==
    /\ UNCHANGED ctl_frame
    /\ UNCHANGED <<printed, parent_dir, systemd, notified>>
    /\ ctl_pc = "fetch"
    /\ IF Polls(mode) THEN Len(fetched) < MaxIter ELSE fetched = << >>
    /\ \E content \in Payloads :
          LET d == loads(src_format, content) IN
          /\ fetched' = Append(fetched, content)
          /\ data' = d
          /\ invoked' = << >>
          /\ runs' = << >>
          /\ IF d[1] = "ok"
             THEN /\ ctl_pc' = "write"
                  /\ ctl_err' = ctl_err
             ELSE Raise(Error(d[2], "loads", ""))
    /\ UNCHANGED <<mode, src_format, dest_format, hooks, deps, dest_file, writes,
                   hook_i, plan, stage_i, task_i>>

\* backend.get() or backend.poll() raises: the provider's error propagates
FetchFails ==
    /\ UNCHANGED ctl_frame
    /\ UNCHANGED <<printed, parent_dir, systemd, notified>>
    /\ ctl_pc = "fetch"
    /\ IF Polls(mode) THEN Len(fetched) < MaxIter ELSE fetched = << >>
    /\ Raise(Error("ProviderError", "get", ""))
    /\ UNCHANGED <<mode, src_format, dest_format, hooks, deps, data, dest_file,
                   fetched, writes, hook_i, invoked, runs, plan, stage_i, task_i>>

\* the sequence of backend.poll() ends: "async for" is left and awrite returns
PollEnds ==
    /\ UNCHANGED ctl_frame
    /\ UNCHANGED <<printed, parent_dir, systemd, notified>>
    /\ ctl_pc = "fetch"
    /\ Polls(mode)
    /\ ctl_pc' = "done"
    /\ UNCHANGED <<mode, src_format, dest_format, hooks, deps, data, dest_file,
                   fetched, writes, hook_i, invoked, runs, plan, stage_i, task_i,
                   ctl_err>>

\* "self._do(self.dest.path.write_text, data)"
DoWrite ==
    /\ UNCHANGED ctl_frame
    /\ ctl_pc = "write"
    /\ ActionOf(mode) = "write_text"
    /\ LET r == Rendered(dest_format, data[2])
           calls == Do(dest_format, data[2])
           w == IF calls = << >> THEN <<"ok", dest_file>>
                ELSE PathWriteText(parent_dir, dest_file, calls[1])
       IN /\ writes' = IF w[1] = "ok" THEN writes \o calls ELSE writes
          /\ dest_file' = IF w[1] = "ok" THEN w[2] ELSE dest_file
          /\ IF r[1] = "ok" /\ w[1] = "ok"
             THEN /\ ctl_pc' = "hooks"
                  /\ hook_i' = 1
                  /\ ctl_err' = ctl_err
             ELSE /\ Raise(IF r[1] = "ok" THEN Error(w[2], "write_text", "")
                           ELSE Error(r[2], "dumps", ""))
                  /\ hook_i' = hook_i
    /\ UNCHANGED <<mode, src_format, dest_format, hooks, deps, data, fetched,
                   invoked, runs, plan, stage_i, task_i>>
    /\ UNCHANGED <<printed, parent_dir, systemd, notified>>

\* "self._do(do_print, data)" in get() and in the loop of aget()
DoPrint ==
    /\ UNCHANGED ctl_frame
    /\ ctl_pc = "write"
    /\ ActionOf(mode) = "do_print"
    /\ LET r == Rendered(dest_format, data[2])
           calls == Do(dest_format, data[2])
       IN /\ printed' = printed \o calls
          /\ IF r[1] = "ok"
             THEN /\ ctl_pc' = IF Polls(mode) THEN "fetch" ELSE "done"
                  /\ ctl_err' = ctl_err
             ELSE Raise(Error(r[2], "dumps", ""))
    /\ UNCHANGED <<mode, src_format, dest_format, hooks, deps, data, dest_file,
                   fetched, writes, hook_i, invoked, runs, plan, stage_i, task_i>>
    /\ UNCHANGED <<parent_dir, systemd, notified>>

\* "if SYSTEMD_AVAILABLE: systemd.notify()" at the head of aget() and awrite():
\* READY=1 is sent (sdnotify raises nothing when the message cannot be
\* delivered) and the loop is entered
Notify ==
    /\ UNCHANGED ctl_frame
    /\ ctl_pc = "notify"
    /\ notified' = IF NotifyCalled(systemd) THEN notified + 1 ELSE notified
    /\ ctl_pc' = "fetch"
    /\ UNCHANGED <<mode, src_format, dest_format, hooks, deps, data, dest_file,
                   fetched, writes, hook_i, invoked, runs, plan, stage_i, task_i,
                   ctl_err>>
    /\ UNCHANGED <<printed, parent_dir, systemd>>

\* The loop over the object's hooks.  The revision of controller.py at hand
\* ends write() and the body of awrite()'s loop with the call of _do; the loop
\* that calls the hooks of ObjectSpec.hooks (settings/__init__.py) after the
\* write follows the design document, section 4.5 (HookReturned, HookRaised,
\* CallHook, HooksDone).

\* the hook returned: the loop over self.hooks goes on with the next hook
HookReturned ==
    /\ ctl_pc' = "hooks"
    /\ hook_i' = hook_i + 1
    /\ ctl_err' = ctl_err

\* the hook raised: the exception leaves write() / awrite()
HookRaised(err) ==
    /\ Raise(err)
    /\ hook_i' = hook_i

Invocation(name, p) ==
    [name |-> name, idx |-> hook_i, nw |-> Len(writes), nf |-> Len(fetched),
     seen |-> dest_file, plan |-> p]

Run(task, outcome, sink) ==
    [task |-> task, res |-> outcome, call |-> Len(invoked), sink |-> sink]

\* hooks.py:131-140, HooksEngine.execute(hook_name), up to the first task of
\* the plan when the task has dependencies
execute(hook_name) ==
    IF UsesGraph(deps, hook_name)
    THEN \E p \in {get_execution_plan(deps, hook_name), << >>} :
            /\ invoked' = Append(invoked, Invocation(hook_name, p))
            /\ plan' = p
            /\ stage_i' = 1
            /\ task_i' = 1
            /\ runs' = runs
            /\ IF p = << >>
               THEN HookReturned
               ELSE /\ ctl_pc' = "graph"
                    /\ hook_i' = hook_i
                    /\ ctl_err' = ctl_err
    ELSE \E outcome \in TaskOutcomes :
            LET err == run_task(hook_name, outcome) IN
            /\ invoked' = Append(invoked, Invocation(hook_name, << >>))
            /\ runs' = Append(runs, [Run(hook_name, outcome, TRUE)
                                       EXCEPT !.call = Len(invoked) + 1])
            /\ UNCHANGED <<plan, stage_i, task_i>>
            /\ IF err = NoError THEN HookReturned ELSE HookRaised(err)

\* "for hook in self.hooks: hook()": Hook.__call__ of the next hook
CallHook ==
    /\ UNCHANGED ctl_frame
    /\ UNCHANGED <<printed, parent_dir, systemd, notified>>
    /\ ctl_pc = "hooks"
    /\ hook_i <= Len(hooks)
    /\ execute(hooks[hook_i])
    /\ UNCHANGED <<mode, src_format, dest_format, hooks, deps, data, dest_file,
                   fetched, writes>>

\* every hook returned: write() returns, awrite() waits for the next payload
HooksDone ==
    /\ UNCHANGED ctl_frame
    /\ UNCHANGED <<printed, parent_dir, systemd, notified>>
    /\ ctl_pc = "hooks"
    /\ hook_i > Len(hooks)
    /\ ctl_pc' = IF Polls(mode) THEN "fetch" ELSE "done"
    /\ UNCHANGED <<mode, src_format, dest_format, hooks, deps, data, dest_file,
                   fetched, writes, hook_i, invoked, runs, plan, stage_i, task_i,
                   ctl_err>>

\* hooks.py:189-200, one pass of the loops of run_task_graph: the task at
\* (stage_i, task_i) is run
run_task_graph ==
    /\ UNCHANGED ctl_frame
    /\ UNCHANGED <<printed, parent_dir, systemd, notified>>
    /\ ctl_pc = "graph"
    /\ LET stage_task == plan[stage_i][task_i]
           task == hooks[hook_i]
           last == task_i = Len(plan[stage_i])
       IN \E outcome \in TaskOutcomes :
            /\ runs' = Append(runs, Run(stage_task, outcome, IsSink(stage_task, task)))
            /\ IF IsSink(stage_task, task)
               THEN LET err == run_task(stage_task, outcome) IN
                    /\ UNCHANGED <<stage_i, task_i>>
                    /\ IF err = NoError THEN HookReturned ELSE HookRaised(err)
               ELSE IF outcome = "raise"
               THEN /\ UNCHANGED <<stage_i, task_i>>
                    /\ HookRaised(Error("ExecutionError", "error running task", stage_task))
               ELSE IF TaskFailed(outcome)
               THEN /\ UNCHANGED <<stage_i, task_i>>
                    /\ HookRaised(Aborted(stage_task))
               ELSE /\ stage_i' = IF last THEN stage_i + 1 ELSE stage_i
                    /\ task_i' = IF last THEN 1 ELSE task_i + 1
                    /\ IF last /\ stage_i = Len(plan)
                       THEN HookReturned
                       ELSE /\ ctl_pc' = "graph"
                            /\ hook_i' = hook_i
                            /\ ctl_err' = ctl_err
    /\ UNCHANGED <<mode, src_format, dest_format, hooks, deps, data, dest_file,
                   fetched, writes, invoked, plan>>

CtlNext ==
    \/ Notify
    \/ Fetch
    \/ FetchFails
    \/ PollEnds
    \/ DoWrite
    \/ DoPrint
    \/ CallHook
    \/ HooksDone
    \/ run_task_graph

SpecCtlInit == CtlInit /\ PAIdle /\ ACIdle /\ SMIdle /\ OthersIdle
SpecCtl == SpecCtlInit /\ [][CtlNext]_vars

----------------------------------------------------------------------------
(* Properties of the controller and the hook engine *)

IsPrefix(a, b) == Len(a) <= Len(b) /\ a = SubSeq(b, 1, Len(a))

\* the tasks run by the i-th hook invocation, in order
TasksRunBy(i) ==
    LET rs == SelectSeq(runs, LAMBDA r : r.call = i) IN
    [j \in 1..Len(rs) |-> rs[j].task]

\* the i-th hook invocation returned without raising
Returned(i) ==
    \/ i < Len(invoked)
    \/ i = Len(invoked) /\ ctl_pc # "graph" /\ ctl_err.type # "ExecutionError"

\* the current iteration (the single one of apply) ran all its steps
IterationComplete ==
    /\ ctl_pc \in {"done", "fetch"}
    /\ Len(writes) >= 1
    /\ Len(writes) = Len(fetched)

C3_GraphAbortsAfterFailedTask ==
    \A i \in 1..Len(runs) :
       (~runs[i].sink /\ runs[i].res = "nonzero") =>
          /\ i = Len(runs)
          /\ Len(invoked) = runs[i].call
          /\ ctl_pc = "failed"
          /\ ctl_err = Aborted(runs[i].task)

\* C3 witness: the first task of a three-task plan failed and the graph aborted
C3_Witness ==
    /\ ctl_pc = "failed"
    /\ ctl_err.msg = "Task graph aborted after failed task"
    /\ Len(Flatten(plan)) = 3
    /\ stage_i = 1
    /\ runs[Len(runs)].res = "nonzero"
    /\ runs[Len(runs)].call = Len(invoked)

\* C4: the tasks run by one execute(name) follow the execution plan: a task
\* without dependencies is the only task run; with dependencies the tasks run
\* are a prefix of the plan, and the whole plan when execute returns, which has
\* every dependency before the requested task and the requested task once, last;
\* with an empty plan nothing is run and execute returns.
C4_ExecuteFollowsPlan ==
    \A i \in 1..Len(invoked) :
       LET c == invoked[i]
           ran == TasksRunBy(i)
           flat == Flatten(c.plan)
       IN IF ~has_deps(deps, c.name)
          THEN ran = <<c.name>>
          ELSE /\ IsPrefix(ran, flat)
               /\ Returned(i) => ran = flat
               /\ c.plan = << >> => Returned(i) /\ ran = << >>
               /\ c.plan # << >> =>
                     /\ flat[Len(flat)] = c.name
                     /\ Cardinality({j \in 1..Len(flat) : flat[j] = c.name}) = 1
                     /\ Upstream(deps, c.name, Cardinality(Tasks))
                           = {flat[j] : j \in 1..(Len(flat) - 1)}

\* C4 witness: one hook ran its three-task plan to the end, one ran an empty
\* plan, and apply() returned
C4_Witness ==
    /\ ctl_pc = "done"
    /\ Len(invoked) = 2
    /\ Len(Flatten(invoked[1].plan)) = 3
    /\ Len(TasksRunBy(1)) = 3
    /\ has_deps(deps, invoked[2].name)
    /\ invoked[2].plan = << >>

\* the object of C5: hooks h1 then h2, h1 without dependencies, h2 depending on h1
\* (with the plans that get_execution_plan computes)
C5_Object ==
    /\ mode = "apply"
    /\ hooks = <<"h1", "h2">>
    /\ deps["h1"] = {}
    /\ deps["h2"] = {"h1"}
    /\ \A i \in 1..Len(invoked) :
          has_deps(deps, invoked[i].name) => invoked[i].plan # << >>

C7_WritesFollowFetchOrder ==
    mode = "sync" =>
       /\ Len(writes) <= Len(fetched)
       /\ Len(fetched) <= Len(writes) + 1
       /\ \A k \in 1..Len(writes) :
             <<"ok", writes[k]>> = RenderOf(src_format, dest_format, fetched[k])
       /\ writes # << >> => dest_file = writes[Len(writes)]

\* C7 witness: two different payloads were processed over an existing file,
\* which holds the render of the second
C7_Witness ==
    /\ mode = "sync"
    /\ Len(writes) = 2
    /\ fetched[1] # fetched[2]
    /\ writes[1] # writes[2]
    /\ dest_file = writes[2]
    /\ <<"ok", dest_file>> = RenderOf(src_format, dest_format, fetched[2])

----------------------------------------------------------------------------
(* cli.py: poll_all, run by asyncio.run *)

Objects == 1..NumObjects

\* asyncio.run(poll_all(controllers, ...)) has started: asyncio.gather wrapped
\* every ctrl.awrite() / ctrl.aget() in a task and poll_all awaits them
PAInit ==
    /\ pa_status = [o \in Objects |-> "running"]
    /\ pa_processed = [o \in Objects |-> 0]
    /\ pa_main = "gather"
    /\ pa_cause = "none"

\* the event loop still runs the tasks
LoopRuns == pa_main \in {"gather", "raised", "cancelling"}

\* one pass of "async for content in self.backend.poll()": the update is
\* decoded, rendered and written (or printed)
PAUpdate(o) ==
    /\ LoopRuns
    /\ pa_status[o] = "running"
    /\ pa_processed[o] < MaxUpdates
    /\ pa_processed' = [pa_processed EXCEPT ![o] = @ + 1]
    /\ UNCHANGED <<pa_status, pa_main, pa_cause>>
    /\ UNCHANGED pa_frame

\* an exception is raised inside the loop of o (by the backend, the codec or
\* the render): nothing in aget / awrite catches it and the task of o ends
PAFail(o) ==
    /\ LoopRuns
    /\ pa_status[o] = "running"
    /\ pa_status' = [pa_status EXCEPT ![o] = "failed"]
    /\ UNCHANGED <<pa_processed, pa_main, pa_cause>>
    /\ UNCHANGED pa_frame

\* the sequence of backend.poll() ends and the task of o returns
PAEnd(o) ==
    /\ LoopRuns
    /\ pa_status[o] = "running"
    /\ pa_status' = [pa_status EXCEPT ![o] = "ended"]
    /\ UNCHANGED <<pa_processed, pa_main, pa_cause>>
    /\ UNCHANGED pa_frame

\* asyncio.gather without return_exceptions: the first exception of a task is
\* raised by "await asyncio.gather(...)"; the other tasks are left running
GatherRaises(status) == \E o \in Objects : status[o] = "failed"

PAGatherRaises ==
    /\ pa_main = "gather"
    /\ GatherRaises(pa_status)
    /\ pa_main' = "raised"
    /\ pa_cause' = "error"
    /\ UNCHANGED <<pa_status, pa_processed>>
    /\ UNCHANGED pa_frame

\* every task returned: gather, and with it poll_all, returns
PAGatherReturns ==
    /\ pa_main = "gather"
    /\ \A o \in Objects : pa_status[o] = "ended"
    /\ pa_main' = "returned"
    /\ UNCHANGED <<pa_status, pa_processed, pa_cause>>
    /\ UNCHANGED pa_frame

\* poll_all is over: asyncio.run cancels the tasks that are left and closes
\* the event loop
PAShutdown ==
    /\ pa_main \in {"raised", "returned", "cancelled"}
    /\ pa_main' = "closed"
    /\ pa_status' = [o \in Objects |->
                       IF pa_status[o] = "running" THEN "cancelled" ELSE pa_status[o]]
    /\ UNCHANGED <<pa_processed, pa_cause>>
    /\ UNCHANGED pa_frame

\* the kinds of backend a controller may poll
Backends == {"appconfig", "secretsmanager", "local"}

\* the exceptions that the loop of backend.poll() catches and survives: the
\* "except" clauses of AppConfigBackend.poll and SecretsManagerBackend.poll
\* (LocalBackend.poll, aget and awrite have none)
PollCatchesAll(backend, exc) == TRUE
PollCatches(backend, exc) ==
    CASE backend = "appconfig" -> exc = "BadRequestException"
      [] backend = "secretsmanager" -> exc = "ValueError"
      [] OTHER -> FALSE

\* the run is cancelled (asyncio.run cancels the main task on an interrupt):
\* the cancellation of "await asyncio.gather(...)" requests the cancellation
\* of every task that is not done
PACancel ==
    /\ pa_main = "gather"
    /\ pa_main' = "cancelling"
    /\ pa_cause' = "cancel"
    /\ pa_status' = [o \in Objects |->
                       IF pa_status[o] = "running" THEN "cancelling" ELSE pa_status[o]]
    /\ UNCHANGED pa_processed
    /\ UNCHANGED pa_frame

\* CancelledError is thrown into the task of o where it is suspended, inside
\* backend.poll(): it ends the task unless the loop catches it
PADeliver(o) ==
    /\ LoopRuns
    /\ pa_status[o] = "cancelling"
    /\ \E b \in Backends :
          pa_status' = [pa_status EXCEPT ![o] =
                          IF PollCatches(b, "CancelledError") THEN "running"
                          ELSE "cancelled"]
    /\ UNCHANGED <<pa_processed, pa_main, pa_cause>>
    /\ UNCHANGED pa_frame

\* every task is done: the cancelled gather raises CancelledError in poll_all
PAGatherCancelled ==
    /\ pa_main = "cancelling"
    /\ \A o \in Objects : pa_status[o] \in {"cancelled", "failed", "ended"}
    /\ pa_main' = "cancelled"
    /\ UNCHANGED <<pa_status, pa_processed, pa_cause>>
    /\ UNCHANGED pa_frame

PANext ==
    \/ \E o \in Objects : PAUpdate(o)
    \/ \E o \in Objects : PAFail(o)
    \/ \E o \in Objects : PAEnd(o)
    \/ PAGatherRaises
    \/ PAGatherReturns
    \/ PACancel
    \/ \E o \in Objects : PADeliver(o)
    \/ PAGatherCancelled
    \/ PAShutdown

SpecPollAllInit == PAInit /\ CtlIdle /\ ACIdle /\ SMIdle /\ OthersIdle
SpecPollAll == SpecPollAllInit /\ [][PANext]_vars

\* C6 (the claim as stated): an error raised inside the loop of one object
\* ends that loop alone: no sibling loop is ended because of it.
C6_ErrorEndsOnlyItsLoop ==
    pa_cause = "error" => \A o \in Objects : pa_status[o] # "cancelled"

----------------------------------------------------------------------------
(* contrib/appconfig.py: AppConfigBackend.poll *)

MINIMUM_POLL_INTERVAL_SECONDS == 60

\* the values of the interval argument in the model (even numbers of seconds)
Intervals == {MINIMUM_POLL_INTERVAL_SECONDS, 10}

TooEarly == "Request too early"

\* resp['Configuration'].read(): the contents a response may carry, as bytes
Contents == {<< >>, <<97>>, <<98, 97>>}

\* what client.get_latest_configuration may do: return a response, or raise
\* BadRequestException with a message, or raise another error
Responses ==
    {[exc |-> "none", msg |-> "", bytes |-> b, next |-> n] :
        b \in Contents, n \in {0, 1}}
    \cup {[exc |-> "BadRequestException", msg |-> m, bytes |-> << >>, next |-> 0] :
             m \in {TooEarly, "Invalid token"}}
    \cup {[exc |-> "ClientError", msg |-> "throttled", bytes |-> << >>, next |-> 0]}

\* how a response is logged: "ok", "too_early" (the rate-limit rejection) or "error"
RespKind(resp) ==
    IF resp.exc = "none" THEN "ok"
    ELSE IF resp.exc = "BadRequestException" /\ resp.msg = TooEarly THEN "too_early"
    ELSE "error"

Event(kind, token, dur, bytes, text) ==
    [kind |-> kind, token |-> token, dur |-> dur, bytes |-> bytes, text |-> text]

\* bytes.decode()
Chr(b) == CASE b = 97 -> "a" [] b = 98 -> "b" [] OTHER -> "?"
Decode(bytes) == [i \in 1..Len(bytes) |-> Chr(bytes[i])]

\* appconfig.py:261-263: the exception is caught and not raised again
RetriedNever(resp) == FALSE
Retried(resp) == resp.exc = "BadRequestException" /\ resp.msg = TooEarly

\* appconfig.py:265: asyncio.sleep(interval / 2)
BackoffFullInterval(interval) == interval
BackoffDelay(interval) == interval \div 2

\* appconfig.py:269: "if content := resp['Configuration'].read()"
HasContentAlways(bytes) == TRUE
HasContent(bytes) == bytes # << >>

\* appconfig.py:268: "token = resp['NextPollConfigurationToken']"
TokenKept(token, resp_token) == token
NextToken(token, resp_token) == resp_token

\* appconfig.py:274: asyncio.sleep(resp['NextPollIntervalInSeconds'])
NextDelay(resp_next, interval) == resp_next

\* poll(interval) was called and its first value is asked for
ACInit ==
    /\ ac_pc = "start"
    /\ ac_interval \in Intervals
    /\ ac_token = 0
    /\ ac_next = 0
    /\ ac_events = << >>
    /\ ac_nreq = 0

\* appconfig.py:250-255: start_configuration_session returns the initial token
ACStart ==
    /\ ac_pc = "start"
    /\ ac_pc' = "request"
    /\ ac_token' = 1
    /\ UNCHANGED <<ac_interval, ac_next, ac_events, ac_nreq>>
    /\ UNCHANGED ac_frame

\* appconfig.py:250-255: start_configuration_session raises
ACStartFails ==
    /\ ac_pc = "start"
    /\ ac_pc' = "raised"
    /\ ac_events' = Append(ac_events, Event("error", 0, 0, << >>, << >>))
    /\ UNCHANGED <<ac_interval, ac_token, ac_next, ac_nreq>>
    /\ UNCHANGED ac_frame

\* appconfig.py:257-274: one request, up to the next suspension of the
\* generator (a sleep or a yield) or to the exception that leaves it
ACRequest ==
    /\ ac_pc = "request"
    /\ ac_nreq < MaxRequests
    /\ ac_nreq' = ac_nreq + 1
    /\ \E resp \in Responses :
         LET req == Event("request", ac_token, 0, << >>, << >>)
             got == Event(RespKind(resp), ac_token + 1, resp.next, resp.bytes, << >>)
         IN IF resp.exc # "none"
            THEN IF Retried(resp)
                 THEN /\ ac_events' = ac_events \o
                           <<req, got, Event("sleep", 0, BackoffDelay(ac_interval), << >>, << >>)>>
                      /\ ac_pc' = "sleeping"
                      /\ UNCHANGED <<ac_token, ac_next>>
                 ELSE /\ ac_events' = ac_events \o <<req, got>>
                      /\ ac_pc' = "raised"
                      /\ UNCHANGED <<ac_token, ac_next>>
            ELSE /\ ac_token' = NextToken(ac_token, got.token)
                 /\ ac_next' = resp.next
                 /\ IF HasContent(resp.bytes)
                    THEN /\ ac_events' = ac_events \o
                              <<req, got, Event("yield", 0, 0, << >>, Decode(resp.bytes))>>
                         /\ ac_pc' = "yielded"
                    ELSE /\ ac_events' = ac_events \o
                              <<req, got,
                                Event("sleep", 0, NextDelay(resp.next, ac_interval), << >>, << >>)>>
                         /\ ac_pc' = "sleeping"
    /\ UNCHANGED ac_interval
    /\ UNCHANGED ac_frame

\* the consumer asks for the next value: the generator goes on after the
\* yield, to appconfig.py:274
ACResume ==
    /\ ac_pc = "yielded"
    /\ ac_events' = Append(ac_events,
                           Event("sleep", 0, NextDelay(ac_next, ac_interval), << >>, << >>))
    /\ ac_pc' = "sleeping"
    /\ UNCHANGED <<ac_interval, ac_token, ac_next, ac_nreq>>
    /\ UNCHANGED ac_frame

\* asyncio.sleep returns: "continue", or the end of the loop body
ACWake ==
    /\ ac_pc = "sleeping"
    /\ ac_pc' = "request"
    /\ UNCHANGED <<ac_interval, ac_token, ac_next, ac_events, ac_nreq>>
    /\ UNCHANGED ac_frame

\* the task that iterates poll() is cancelled while the generator is suspended
ACCancel ==
    /\ ac_pc \in {"sleeping", "yielded"}
    /\ ac_pc' = "cancelled"
    /\ UNCHANGED <<ac_interval, ac_token, ac_next, ac_events, ac_nreq>>
    /\ UNCHANGED ac_frame

\* the steps of the loop itself
ACLoop == ACRequest \/ ACResume \/ ACWake

ACNext ==
    \/ ACStart
    \/ ACStartFails
    \/ ACRequest
    \/ ACResume
    \/ ACWake
    \/ ACCancel

SpecAppConfigInit == ACInit /\ CtlIdle /\ PAIdle /\ SMIdle /\ OthersIdle
SpecAppConfig == SpecAppConfigInit /\ [][ACNext]_vars

Kind(i) == ac_events[i].kind
NumEvents == Len(ac_events)

\* C8: when the first poll attempt is rejected with "Request too early", the
\* loop sleeps half the interval and makes one retry with the same token; the
\* payload of the successful response that follows is the first value yielded;
\* a yield always carries the decoded payload of the response just received.
\* (Every rejection, not only the first, is followed by that sleep and retry.)
C8_BackoffThenRetry ==
    /\ \A i \in 1..NumEvents :
          Kind(i) = "too_early" =>
             /\ Kind(i - 1) = "request"
             /\ NumEvents >= i + 1
             /\ Kind(i + 1) = "sleep"
             /\ ac_events[i + 1].dur * 2 = ac_interval
             /\ NumEvents >= i + 2 =>
                   /\ Kind(i + 2) = "request"
                   /\ ac_events[i + 2].token = ac_events[i - 1].token
    /\ \A i \in 1..NumEvents :
          Kind(i) = "yield" =>
             /\ Kind(i - 1) = "ok"
             /\ ac_events[i - 1].bytes # << >>
             /\ ac_events[i].text = Decode(ac_events[i - 1].bytes)
    /\ (NumEvents >= 5 /\ Kind(2) = "too_early" /\ Kind(5) = "ok"
           /\ ac_events[5].bytes # << >>) =>
          /\ NumEvents >= 6
          /\ Kind(6) = "yield"
          /\ ac_events[6].text = Decode(ac_events[5].bytes)
          /\ \A j \in 1..5 : Kind(j) # "yield"

\* C8 witness: rejected once, retried once, and the payload was yielded
C8_Witness ==
    /\ ac_nreq = 2
    /\ NumEvents = 6
    /\ Kind(2) = "too_early"
    /\ Kind(3) = "sleep"
    /\ Kind(5) = "ok"
    /\ Kind(6) = "yield"
    /\ ac_events[6].text = <<"b", "a">>
    /\ ac_pc = "yielded"

Count(kind) == Cardinality({i \in 1..NumEvents : Kind(i) = kind})

\* C10: a successful response with a non-empty payload is yielded once, one
\* with an empty payload is not yielded and does not end the loop; either way
\* the loop then sleeps for the response's NextPollIntervalInSeconds and makes
\* the next request.
C10_YieldOrSkipThenSleep ==
    /\ \A i \in 1..NumEvents :
          Kind(i) = "ok" =>
             LET s == IF ac_events[i].bytes # << >> THEN i + 2 ELSE i + 1 IN
             /\ NumEvents >= i + 1
             /\ ac_events[i].bytes # << >> =>
                   /\ Kind(i + 1) = "yield"
                   /\ ac_events[i + 1].text = Decode(ac_events[i].bytes)
             /\ NumEvents >= s =>
                   /\ Kind(s) = "sleep"
                   /\ ac_events[s].dur = ac_events[i].dur
             /\ NumEvents >= s + 1 => Kind(s + 1) = "request"
             /\ ~(ac_pc = "raised" /\ NumEvents <= s)
    /\ Count("yield") =
          Cardinality({i \in 1..NumEvents : Kind(i) = "ok" /\ ac_events[i].bytes # << >>})

\* C10 witness: an empty response was skipped, the next one was yielded, and
\* the loop slept the suggested second and made the next request
C10_Witness ==
    /\ NumEvents >= 9
    /\ Kind(2) = "ok"
    /\ ac_events[2].bytes = << >>
    /\ Kind(3) = "sleep"
    /\ Kind(5) = "ok"
    /\ Kind(6) = "yield"
    /\ Kind(7) = "sleep"
    /\ ac_events[7].dur = 1
    /\ Kind(8) = "request"

----------------------------------------------------------------------------
(* contrib/secretsmanager.py: SecretsManagerBackend.poll, driven by        *)
(* BackendController.awrite                                                *)

Versions == 1..MaxVersions

\* the provider: the SecretString of a version of the secret
SecretString(v) == <<"json", [k |-> Plain(ToString(v))]>>

\* the provider: response['Versions'] of list_secret_version_ids when the
\* version cur is staged AWSCURRENT (none when cur = 0)
ListSecretVersionIds(cur) ==
    [i \in Versions |->
        [VersionId |-> i,
         VersionStages |-> IF i = cur THEN {"AWSCURRENT"}
                           ELSE IF cur # 0 /\ i = cur - 1 THEN {"AWSPREVIOUS"}
                           ELSE {}]]

\* the provider: the response of get_secret_value (the AWSCURRENT version)
GetSecretValue(cur) == [SecretString |-> SecretString(cur), VersionId |-> cur]

\* the controller of the secret: source format json, destination format yaml
SMSrcFormat == "json"
SMDest == from_primitives("yaml")

RECURSIVE FirstCurrent(_, _)
FirstCurrent(versions, i) ==
    IF i > Len(versions) THEN <<"err", "ValueError">>
    ELSE IF "AWSCURRENT" \in versions[i].VersionStages /\ versions[i].VersionId # 0
         THEN <<"ok", versions[i].VersionId>>
         ELSE FirstCurrent(versions, i + 1)

\* _retrieve_current_version: the first version staged AWSCURRENT, or ValueError
retrieve_current_version(versions) == FirstCurrent(versions, 1)

\* "except ValueError as exc": the exceptions the loop of poll survives
SMCatchesNothing(exc) == FALSE
SMCatches(exc) == PollCatches("secretsmanager", exc)

\* "if version_id and version_id != self.version_id"
DiffersOnlyFirst(version_id, marker) == version_id # 0 /\ marker = 0
Differs(version_id, marker) == version_id # 0 /\ version_id # marker

\* get(): "self.version_id = response.get('VersionId')"
VersionIdKept(old, response) == old
VersionIdAfterGet(old, response) == response.VersionId

\* one logged cycle: the marker and the provider's change count when the
\* version was queried, the version reported (0: none), the version fetched
\* (0: no fetch) and the provider's change count when it was fetched
Cycle(seen, marker, changes, got, got_at) ==
    [seen |-> seen, marker |-> marker, changes |-> changes, got |-> got,
     got_at |-> got_at]

\* the log keeps the latest MaxLog cycles
Logged(log, c) ==
    IF Len(log) < MaxLog THEN Append(log, c) ELSE Append(Tail(log), c)

\* awrite() was called on a new controller: poll() starts its first cycle
SMInit ==
    /\ sm_pc = "query"
    /\ sm_version_id = 0
    /\ sm_current \in 0..MaxVersions
    /\ sm_changes = 0
    /\ sm_seen = 0
    /\ sm_content = <<"none", "">>
    /\ sm_file \in {NoFile, Plain("old")}
    /\ sm_log = << >>

\* the provider: another version becomes AWSCURRENT, or none is
SMProviderChange ==
    /\ UNCHANGED sm_frame
    /\ sm_changes < MaxChanges
    /\ sm_pc \notin {"failed", "cancelled"}
    /\ \E v \in (0..MaxVersions) \ {sm_current} : sm_current' = v
    /\ sm_changes' = sm_changes + 1
    /\ UNCHANGED <<sm_pc, sm_version_id, sm_seen, sm_content, sm_file, sm_log>>

\* "version_id = self._retrieve_current_version()" with its except and else
SMQuery ==
    /\ UNCHANGED sm_frame
    /\ sm_pc = "query"
    /\ LET r == retrieve_current_version(ListSecretVersionIds(sm_current))
           v == IF r[1] = "ok" THEN r[2] ELSE 0
       IN /\ sm_seen' = v
          /\ sm_log' = Logged(sm_log, Cycle(v, sm_version_id, sm_changes, 0, 0))
          /\ sm_pc' = IF r[1] = "err"
                      THEN IF SMCatches(r[2]) THEN "sleep" ELSE "failed"
                      ELSE IF Differs(v, sm_version_id) THEN "get" ELSE "sleep"
          /\ sm_content' = IF r[1] = "err" /\ ~SMCatches(r[2]) THEN r
                           ELSE sm_content
    /\ UNCHANGED <<sm_version_id, sm_current, sm_changes, sm_file>>

\* "yield self.get()": the value is fetched and handed to the loop of awrite
SMGet ==
    /\ UNCHANGED sm_frame
    /\ sm_pc = "get"
    /\ sm_current # 0
    /\ LET response == GetSecretValue(sm_current)
           last == sm_log[Len(sm_log)]
       IN /\ sm_version_id' = VersionIdAfterGet(sm_version_id, response)
          /\ sm_content' = response.SecretString
          /\ sm_log' = [sm_log EXCEPT ![Len(sm_log)] =
                          Cycle(last.seen, last.marker, last.changes,
                                response.VersionId, sm_changes)]
    /\ sm_pc' = "write"
    /\ UNCHANGED <<sm_current, sm_changes, sm_seen, sm_file>>

\* the provider raises: list_secret_version_ids fails, or get_secret_value
\* fails (as it does when no version is staged AWSCURRENT any more)
SMFails ==
    /\ UNCHANGED sm_frame
    /\ sm_pc \in {"query", "get"}
    /\ ~SMCatches("ClientError")
    /\ sm_pc' = "failed"
    /\ sm_content' = <<"err", "ClientError">>
    /\ UNCHANGED <<sm_version_id, sm_current, sm_changes, sm_seen, sm_file, sm_log>>

\* the body of "async for content in self.backend.poll()" in awrite
SMWrite ==
    /\ UNCHANGED sm_frame
    /\ sm_pc = "write"
    /\ LET l == loads(SMSrcFormat, sm_content)
           calls == IF l[1] = "ok" THEN Do(SMDest, l[2]) ELSE << >>
       IN /\ sm_file' = IF calls = << >> THEN sm_file
                        ELSE write_text(sm_file, calls[1])
          /\ sm_pc' = IF calls = << >> THEN "failed" ELSE "sleep"
          /\ sm_content' = IF calls = << >> THEN <<"err", "RenderError">>
                           ELSE sm_content
    /\ UNCHANGED <<sm_version_id, sm_current, sm_changes, sm_seen, sm_log>>

\* "await asyncio.sleep(interval)" returns
SMSleep ==
    /\ UNCHANGED sm_frame
    /\ sm_pc = "sleep"
    /\ sm_pc' = "query"
    /\ UNCHANGED <<sm_version_id, sm_current, sm_changes, sm_seen, sm_content,
                   sm_file, sm_log>>

\* the task is cancelled while it sleeps: CancelledError leaves the loop
SMCancel ==
    /\ UNCHANGED sm_frame
    /\ sm_pc = "sleep"
    /\ ~SMCatches("CancelledError")
    /\ sm_pc' = "cancelled"
    /\ UNCHANGED <<sm_version_id, sm_current, sm_changes, sm_seen, sm_content,
                   sm_file, sm_log>>

SMLoop == SMQuery \/ SMGet \/ SMWrite \/ SMSleep

SMNext ==
    \/ SMProviderChange
    \/ SMQuery
    \/ SMGet
    \/ SMFails
    \/ SMWrite
    \/ SMSleep
    \/ SMCancel

SpecSecretsInit == SMInit /\ CtlIdle /\ PAIdle /\ ACIdle /\ OthersIdle
SpecSecrets == SpecSecretsInit /\ [][SMNext]_vars
\* the event loop keeps running the loop of poll while it is neither cancelled
\* nor ended by an error
SpecSecretsLive == SpecSecrets /\ WF_vars(SMLoop)

\* a logged cycle is over: the loop reached the sleep that ends it
CycleOver(j) == j < Len(sm_log) \/ sm_pc \in {"sleep", "query", "cancelled"}

\* C11: a cycle of the secret-store loop on which the provider reports no
\* version staged as current does not fail the loop (no ValueError leaves
\* poll) and yields nothing; the loop goes to its sleep, from which it polls
\* again; and a later cycle that finds a current version differing from the
\* marker fetches and yields it as usual.
C11_NoCurrentSkipsCycle ==
    /\ sm_content # <<"err", "ValueError">>
    /\ \A j \in 1..Len(sm_log) :
          sm_log[j].seen = 0 =>
             /\ sm_log[j].got = 0
             /\ (j = Len(sm_log) /\ sm_pc \notin {"query", "failed", "cancelled"})
                   => (sm_pc = "sleep" /\ ENABLED SMSleep)
             /\ (/\ j < Len(sm_log)
                 /\ sm_log[j + 1].seen # 0
                 /\ sm_log[j + 1].seen # sm_log[j + 1].marker
                 /\ CycleOver(j + 1))
                   => sm_log[j + 1].got # 0

\* C11 happens: version 1 was fetched, the next cycle found no current
\* version, and the cycle after it fetched version 2 and wrote it
C11_Witness ==
    /\ Len(sm_log) = 3
    /\ sm_log[1].got = 1
    /\ sm_log[2].seen = 0
    /\ sm_log[2].got = 0
    /\ sm_log[3].seen = 2
    /\ sm_log[3].got = 2
    /\ sm_pc = "sleep"
    /\ <<"ok", sm_file>> = RenderOf(SMSrcFormat, SMDest, SecretString(2))

\* the logged cycle j yields: it fetched a value, or is about to fetch it
Yields(j) == sm_log[j].got # 0 \/ (j = Len(sm_log) /\ sm_pc = "get")

\* C12: a cycle of SecretsManagerBackend.poll yields exactly when the provider
\* reported a current version that differs from the marker version_id; a
\* fetch sets the marker to the version of the value it fetched, and the next
\* cycle starts from that marker; hence, after a yield, no cycle yields as long
\* as the provider's current version has not changed since the fetch.
C12_YieldIffVersionDiffers ==
    /\ \A j \in 1..Len(sm_log) :
          /\ Yields(j) => (sm_log[j].seen # 0 /\ sm_log[j].seen # sm_log[j].marker)
          /\ (CycleOver(j) /\ sm_log[j].seen # 0 /\ sm_log[j].seen # sm_log[j].marker)
                => sm_log[j].got # 0
          /\ j < Len(sm_log) =>
                sm_log[j + 1].marker =
                   IF sm_log[j].got # 0 THEN sm_log[j].got ELSE sm_log[j].marker
    /\ sm_pc = "write" =>
          /\ sm_version_id = sm_log[Len(sm_log)].got
          /\ sm_content = SecretString(sm_version_id)
    /\ \A i, j \in 1..Len(sm_log) :
          (i < j /\ sm_log[i].got # 0 /\ sm_log[j].changes = sm_log[i].got_at)
             => ~Yields(j)

\* C12 happens: version 1 was fetched, the next cycle found it unchanged and
\* did not yield, the provider moved to version 2 and the third cycle fetched it
C12_Witness ==
    /\ Len(sm_log) = 3
    /\ sm_log[1].got = 1
    /\ sm_log[2].seen = 1
    /\ sm_log[2].changes = sm_log[1].got_at
    /\ sm_log[2].got = 0
    /\ sm_log[3].got = 2
    /\ sm_version_id = 2

\* the destination holds the render of version v of the secret
HoldsRenderOf(v) == <<"ok", sm_file>> = RenderOf(SMSrcFormat, SMDest, SecretString(v))

\* C13: under awrite() with a polling loop that keeps being scheduled, if the
\* provider's current version ends up staying at v, then, unless the loop is
\* ended by an error or cancelled, the destination eventually holds the render
\* of v and keeps it (also when the version changed between the query of the
\* current version and the fetch).
C13_LatestValueEventuallyWritten ==
    \A v \in Versions :
       <>[](sm_current = v) =>
          \/ <>(sm_pc \in {"failed", "cancelled"})
          \/ <>[]HoldsRenderOf(v)

\* C13 happens: the cycle queried version 1, the provider moved to version 2
\* before the fetch, and the fetch wrote the render of version 2
C13_Witness ==
    /\ sm_log # << >>
    /\ sm_log[Len(sm_log)].seen = 1
    /\ sm_log[Len(sm_log)].got = 2
    /\ sm_log[Len(sm_log)].got_at > sm_log[Len(sm_log)].changes
    /\ sm_current = 2
    /\ sm_pc = "sleep"
    /\ HoldsRenderOf(2)

\* C14: get(sink) and watch(sink) are read-only: they invoke no hook, write no
\* text to the destination and leave its contents alone; they pass to the sink
\* the render of each payload, in order: once for get, once per yielded payload
\* for watch.
C14_GetAndWatchReadOnly ==
    /\ [](mode \in {"get", "watch"} =>
            /\ writes = << >>
            /\ invoked = << >>
            /\ runs = << >>
            /\ hook_i = 0
            /\ Len(printed) <= Len(fetched)
            /\ \A k \in 1..Len(printed) :
                  <<"ok", printed[k]>> = RenderOf(src_format, dest_format, fetched[k])
            /\ ctl_pc \in {"fetch", "done"} => Len(printed) = Len(fetched)
            /\ mode = "get" => Len(printed) <= 1)
    /\ [][(mode \in {"get", "watch"}) => (dest_file' = dest_file)]_vars

\* C14 happens: watch() of an object that declares hooks sank the renders of two
\* different payloads while the destination file kept its old contents
C14_Witness ==
    /\ mode = "watch"
    /\ hooks # << >>
    /\ Len(printed) = 2
    /\ printed[1] # printed[2]
    /\ dest_file = Plain("old")
    /\ ctl_pc = "fetch"

\* C15 (the claim as stated): a write of apply() or sync() does not fail for a
\* missing parent directory of the destination: the directory exists once the
\* file is written.
C15_WriteCreatesParents ==
    /\ ctl_err.type # "FileNotFoundError"
    /\ writes # << >> => parent_dir

\* C16 (the claim as stated): a watch/sync loop signals readiness at most once,
\* and only after its first iteration sank or wrote a render.
C16_ReadyOnceAfterFirstIteration ==
    Polls(mode) =>
       /\ notified <= 1
       /\ notified = 1 => (writes # << >> \/ printed # << >>)

\* C17: once a poll_all run is cancelled, every task that was in flight is
\* cancelled: none of them processes a further update (fetch, write or hooks),
\* none goes back to polling, and poll_all itself ends cancelled.
C17_CancelStopsEveryTask ==
    /\ [][(pa_cause = "cancel") => (pa_processed' = pa_processed)]_vars
    /\ [](pa_cause = "cancel" =>
            /\ \A o \in Objects : pa_status[o] # "running"
            /\ pa_main \in {"cancelling", "cancelled", "closed"}
            /\ pa_main \in {"cancelled", "closed"} =>
                  \A o \in Objects : pa_status[o] \in {"cancelled", "failed", "ended"})

\* C17 happens: both loops had processed updates when the run was cancelled,
\* both were cancelled and the event loop was closed
C17_Witness ==
    /\ pa_cause = "cancel"
    /\ pa_main = "closed"
    /\ \A o \in Objects : pa_status[o] = "cancelled" /\ pa_processed[o] >= 1

----------------------------------------------------------------------------
(* contrib/appconfig.py: AppConfigBackend.new and _get_id_from_name *)

\* the three lookups of new(), in the order it makes them
Operations ==
    <<"list_applications", "list_configuration_profiles", "list_environments">>

Ids == 1..MaxMatches

\* what the paginated search may return for a name: ids in the provider's order
IdLists ==
    {q \in SeqsUpTo(Ids, MaxMatches) : \A i, j \in 1..Len(q) : i # j => q[i] # q[j]}

\* every call of _get_id_from_name runs the paginated search
SendsSearch(lookups) == TRUE

\* _get_id_from_name on the ids the search returned: the id it returns or the
\* ValueError it raises, and whether it emits the RuntimeWarning
GetIdUsesLast(ids) ==
    IF ids = << >> THEN [res |-> <<"err", "ValueError">>, warn |-> FALSE]
    ELSE [res |-> <<"ok", ids[Len(ids)]>>, warn |-> Len(ids) > 1]
get_id_from_name(ids) ==
    IF ids = << >> THEN [res |-> <<"err", "ValueError">>, warn |-> FALSE]
    ELSE [res |-> <<"ok", ids[1]>>, warn |-> Len(ids) > 1]

\* AppConfigBackend.new(application_name, configuration_profile_name,
\* environment_name) was called for the first time
NWInit ==
    /\ nw_pc = "lookup"
    /\ nw_ids \in [1..Len(Operations) -> IdLists]
    /\ nw_step = 1
    /\ nw_resolved = << >>
    /\ nw_calls = 1
    /\ nw_built = 0
    /\ nw_lookups = 0
    /\ nw_searches = 0
    /\ nw_warned = {}
    /\ nw_err = "none"

\* get_application_id, get_configuration_profile_id or get_environment_id:
\* one call of _get_id_from_name; after the third, cls(...) builds the backend
NWLookup ==
    /\ UNCHANGED nw_frame
    /\ nw_pc = "lookup"
    /\ LET r == get_id_from_name(nw_ids[nw_step])
           last == nw_step = Len(Operations)
       IN /\ nw_lookups' = nw_lookups + 1
          /\ nw_searches' = IF SendsSearch(nw_lookups) THEN nw_searches + 1
                            ELSE nw_searches
          /\ nw_warned' = IF r.warn THEN nw_warned \cup {<<nw_calls, nw_step>>}
                          ELSE nw_warned
          /\ IF r.res[1] = "err"
             THEN /\ nw_pc' = "failed"
                  /\ nw_err' = r.res[2]
                  /\ UNCHANGED <<nw_step, nw_resolved, nw_built>>
             ELSE /\ nw_resolved' = Append(nw_resolved, r.res[2])
                  /\ nw_pc' = IF last THEN "built" ELSE "lookup"
                  /\ nw_step' = IF last THEN nw_step ELSE nw_step + 1
                  /\ nw_built' = IF last THEN nw_built + 1 ELSE nw_built
                  /\ nw_err' = nw_err
    /\ UNCHANGED <<nw_ids, nw_calls>>

\* new() is called again with the same names
NWAgain ==
    /\ UNCHANGED nw_frame
    /\ nw_pc = "built"
    /\ nw_calls < MaxConstructions
    /\ nw_pc' = "lookup"
    /\ nw_step' = 1
    /\ nw_resolved' = << >>
    /\ nw_calls' = nw_calls + 1
    /\ UNCHANGED <<nw_ids, nw_built, nw_lookups, nw_searches, nw_warned, nw_err>>

NWNext ==
    \/ NWLookup
    \/ NWAgain

SpecNewInit == NWInit /\ STIdle /\ CtlIdle /\ PAIdle /\ ACIdle /\ SMIdle /\ ExtIdle
SpecNew == SpecNewInit /\ [][NWNext]_vars

\* C18 (the claim as stated): repeated constructions with the same names send
\* each name lookup to the provider once: three searches in all, every later
\* lookup being served from the cache.
C18_LookupsAreCached ==
    /\ nw_searches <= Len(Operations)
    /\ nw_pc = "built" =>
          /\ nw_searches = Len(Operations)
          /\ nw_lookups - nw_searches = Len(Operations) * (nw_built - 1)

\* C19: a name with no match makes new() raise ValueError without building a
\* backend; a name with at least one match resolves to the first id in the
\* provider's order; the RuntimeWarning is emitted exactly by the lookups whose
\* name has more than one match.
C19_NameResolution ==
    /\ nw_pc = "failed" =>
          /\ nw_ids[nw_step] = << >>
          /\ nw_err = "ValueError"
          /\ nw_built = nw_calls - 1
    /\ \A k \in 1..Len(nw_resolved) :
          /\ nw_ids[k] # << >>
          /\ nw_resolved[k] = nw_ids[k][1]
    /\ nw_pc = "built" => Len(nw_resolved) = Len(Operations) /\ nw_built = nw_calls
    /\ \A c \in 1..nw_calls, k \in 1..Len(Operations) :
          <<c, k>> \in nw_warned <=>
             /\ Len(nw_ids[k]) > 1
             /\ c < nw_calls \/ k <= Len(nw_resolved)

\* C19 happens: the first name had two matches in the order 2, 1 and resolved
\* to 2 with a warning, the second had one match and no warning, and the third
\* had none: new() raised
C19_Witness ==
    /\ nw_pc = "failed"
    /\ nw_step = 3
    /\ nw_ids[1] = <<2, 1>>
    /\ nw_resolved = <<2, nw_ids[2][1]>>
    /\ Len(nw_ids[2]) = 1
    /\ nw_warned = {<<1, 1>>}
    /\ nw_built = 0

----------------------------------------------------------------------------
(* settings/__init__.py: load and ObjectSpec.from_primitives *)

NoEngine == <<"absent", {}>>

\* the "hooks" entry of an object of the settings file
HooksEntries == {<<"absent", << >>>>} \cup {<<"list", q>> : q \in SeqsUpTo(Tasks, MaxHooks)}

\* load(path): the engine is None when poethepoet cannot be imported or when
\* HooksEngine.load_file raises PoeException (the file defines no task)
load(file) ==
    IF ~file.installed THEN NoEngine
    ELSE IF file.tasks = {} THEN NoEngine
    ELSE <<"engine", file.tasks>>

\* "hook_names: list[str] = data.get('hooks', [])"
hook_names(entry) == IF entry[1] = "absent" THEN << >> ELSE entry[2]

\* "if hook_names and engine is None: raise ValueError(...)"
EngineNeverRequired(names, engine) == FALSE
EngineMissing(names, engine) == names # << >> /\ engine = NoEngine

\* Hook.__init__ (hooks.py): "if name not in engine: raise ValueError(
\* f'Undefined hook {name!r} (options: {list(engine.tasks)})')", else the
\* Hook object; the error carries the name and the options of its message
HookUnchecked(engine, name) == <<"ok", name>>
Hook(engine, name) ==
    IF name \notin engine[2]
    THEN <<"err", "ValueError: undefined hook", <<name, engine[2]>>>>
    ELSE <<"ok", name>>

\* HooksEngine.get_hook(name): "return Hook(self, name)"
get_hook(engine, name) == Hook(engine, name)

\* the positions of names at which "engine.get_hook(hook_name)" raises
Undefined(names, engine) ==
    {i \in 1..Len(names) : get_hook(engine, names[i])[1] = "err"}

\* ObjectSpec._load_hooks(data, engine): the tuple of hooks, or the error of
\* the first name, in the order of the list, whose Hook cannot be built
load_hooks(entry, engine) ==
    LET names == hook_names(entry) IN
    IF EngineMissing(names, engine) THEN <<"err", "ValueError: poethepoet", << >>>>
    ELSE IF Undefined(names, engine) # {}
    THEN LET first == CHOOSE i \in Undefined(names, engine) :
                         \A j \in Undefined(names, engine) : i <= j
         IN get_hook(engine, names[first])
    ELSE <<"ok", names>>

\* the settings file is about to be loaded
STInit ==
    /\ st_pc = "load"
    /\ st_file \in [installed : BOOLEAN, tasks : SUBSET Tasks]
    /\ st_data \in HooksEntries
    /\ st_engine = NoEngine
    /\ st_hooks = << >>
    /\ st_ops = 0
    /\ st_err = "none"
    /\ st_msg = << >>

\* conf = settings.load(path)
STLoad ==
    /\ UNCHANGED st_frame
    /\ st_pc = "load"
    /\ st_engine' = load(st_file)
    /\ st_pc' = "construct"
    /\ UNCHANGED <<st_file, st_data, st_hooks, st_ops, st_err, st_msg>>

\* the controller of the object is constructed: ObjectSpec.from_primitives
STConstruct ==
    /\ UNCHANGED st_frame
    /\ st_pc = "construct"
    /\ LET r == load_hooks(st_data, st_engine) IN
       IF r[1] = "ok"
       THEN /\ st_hooks' = r[2]
            /\ st_pc' = "constructed"
            /\ st_err' = st_err
            /\ st_msg' = st_msg
       ELSE /\ st_hooks' = st_hooks
            /\ st_pc' = "failed"
            /\ st_err' = r[2]
            /\ st_msg' = r[3]
    /\ UNCHANGED <<st_file, st_data, st_engine, st_ops>>

\* the constructed controller operates: a fetch, a write or a hook call
STOperate ==
    /\ UNCHANGED st_frame
    /\ st_pc \in {"constructed", "operating"}
    /\ st_ops < MaxIter
    /\ st_ops' = st_ops + 1
    /\ st_pc' = "operating"
    /\ UNCHANGED <<st_file, st_data, st_engine, st_hooks, st_err, st_msg>>

STNext ==
    \/ STLoad
    \/ STConstruct
    \/ STOperate

SpecSettingsInit == STInit /\ NWIdle /\ CtlIdle /\ PAIdle /\ ACIdle /\ SMIdle /\ ExtIdle
SpecSettings == SpecSettingsInit /\ [][STNext]_vars

\* C20: when no hook graph was loaded (the engine is absent), the construction
\* of an object that names hooks fails with the configuration error before
\* anything is fetched, written or run for it; an object whose hook list is
\* empty or missing is constructed with no hooks.
C20_HooksNeedEngine ==
    (st_pc \notin {"load", "construct"} /\ st_engine = NoEngine) =>
       IF hook_names(st_data) # << >>
       THEN /\ st_pc = "failed"
            /\ st_err = "ValueError: poethepoet"
            /\ st_ops = 0
       ELSE /\ st_pc \in {"constructed", "operating"}
            /\ st_hooks = << >>
            /\ st_err = "none"

\* C20 happens: poethepoet is installed but the file defines no task, the
\* object names two hooks and its construction failed
C20_Witness ==
    /\ st_file.installed
    /\ st_engine = NoEngine
    /\ Len(hook_names(st_data)) = 2
    /\ st_pc = "failed"
    /\ st_ops = 0

\* C21: when the engine is loaded and the object names a hook the engine does
\* not define, the construction fails with the ValueError of the first such
\* name, whose message lists the names the engine defines; the object gets no
\* hooks and nothing is fetched, written or run for it.
C21_UndefinedHookFailsConstruction ==
    (/\ st_pc \notin {"load", "construct"}
     /\ st_engine # NoEngine
     /\ \E i \in 1..Len(hook_names(st_data)) : hook_names(st_data)[i] \notin st_file.tasks) =>
       /\ st_pc = "failed"
       /\ st_err = "ValueError: undefined hook"
       /\ st_msg[1] \in {hook_names(st_data)[i] : i \in 1..Len(hook_names(st_data))}
       /\ st_msg[1] \notin st_file.tasks
       /\ \A i \in 1..Len(hook_names(st_data)) :
              hook_names(st_data)[i] \notin st_file.tasks =>
                 \E j \in 1..i : hook_names(st_data)[j] = st_msg[1]
       /\ st_msg[2] = st_file.tasks
       /\ st_hooks = << >>
       /\ st_ops = 0

\* C21 happens: the engine defines h1 and h3, the object names h1 then h2, and
\* its construction failed naming h2 and the options h1, h3
C21_Witness ==
    /\ st_engine = <<"engine", {"h1", "h3"}>>
    /\ hook_names(st_data) = <<"h1", "h2">>
    /\ st_pc = "failed"
    /\ st_msg = <<"h2", {"h1", "h3"}>>
    /\ st_hooks = << >>

\* C23: a controller whose source format is not in the codec registry was
\* rejected when it was constructed: it makes no fetch, and the unsupported
\* format is never met by a decode call of a running operation.
C23_UnknownFormatNeverFetches ==
    src_format \notin FormatT =>
       /\ fetched = << >>
       /\ ctl_err.msg # "loads"

\* C27: the destination is in structured mode exactly when its format value
\* is an identifier of the codec registry and in template mode for any other
\* value, one of the two and never both; the mode and the format are those of
\* the construction for the whole operation, and every write carries the
\* render of that mode: the codec's dump, or the template's render.
C27_ModeDecidedAtConstruction ==
    /\ [](mode # "idle" =>
            /\ \E f \in Formats :
                  /\ dest_format = from_primitives(f[2])
                  /\ is_template(dest_format) <=> f[2] \notin FormatT
            /\ is_template(dest_format) <=> ~(dest_format[1] = "fmt" /\ dest_format[2] \in FormatT)
            /\ \A k \in 1..Len(writes) :
                  LET d == loads(src_format, fetched[k])[2] IN
                  writes[k] = IF is_template(dest_format)
                              THEN TemplateRender(dest_format[2], d)[2]
                              ELSE dumps(dest_format[2], d)[2])
    /\ [][dest_format' = dest_format]_vars

\* C27 happens: a sync() whose destination is the template k.j2 wrote twice,
\* both times the template's render
C27_Witness ==
    /\ mode = "sync"
    /\ dest_format = <<"tpl", "k">>
    /\ Len(writes) = 2
    /\ fetched[1] # fetched[2]
    /\ \A k \in 1..2 : writes[k] = fetched[k][2].k

RunsOf(t) == Cardinality({i \in 1..Len(runs) : runs[i].task = t})

LatestToken(n) ==
    LET oks == {k \in 1..n : Kind(k) = "ok"} IN
    IF oks = {} THEN 1
    ELSE ac_events[CHOOSE k \in oks : \A m \in oks : m <= k].token

\* C26: every get_latest_configuration request carries the token of the most
\* recent successful response (the initial token before any success); after a
\* "Request too early" rejection the next request carries the same token; a
\* token that a response succeeded with is not carried by any later request.
C26_TokenFollowsLastSuccess ==
    /\ \A i \in 1..NumEvents :
          Kind(i) = "request" => ac_events[i].token = LatestToken(i)
    /\ \A i \in 1..NumEvents :
          (Kind(i) = "too_early" /\ NumEvents >= i + 2) =>
             /\ Kind(i + 2) = "request"
             /\ ac_events[i + 2].token = ac_events[i - 1].token
    /\ \A i \in 1..NumEvents : \A j \in 1..NumEvents :
          (i < j /\ Kind(i) = "request" /\ Kind(j) = "request" /\ Kind(i + 1) = "ok") =>
             ac_events[j].token # ac_events[i].token
    /\ ac_pc \in {"request", "sleeping", "yielded"} => ac_token = LatestToken(NumEvents)

\* C26 happens: a request with the initial token was rejected as too early,
\* the retry with the same token succeeded, and the request after it carried
\* the token of that response
C26_Witness ==
    /\ NumEvents >= 8
    /\ Kind(1) = "request" /\ ac_events[1].token = 1
    /\ Kind(2) = "too_early"
    /\ Kind(4) = "request" /\ ac_events[4].token = 1
    /\ Kind(5) = "ok" /\ ac_events[5].token = 2
    /\ \E i \in 6..NumEvents : Kind(i) = "request" /\ ac_events[i].token = 2

----------------------------------------------------------------------------
(* cli.py: the hook command *)

CoreIdle == CtlIdle /\ PAIdle /\ ACIdle /\ SMIdle /\ NWIdle /\ STIdle

\* the engines conf.engine can be: None, or an engine that defines some tasks
Engines == {NoEngine} \cup {<<"engine", T>> : T \in (SUBSET Tasks) \ {{}}}

\* "if not conf.engine:"
EngineAbsent(engine) == engine = NoEngine

\* the command starts with the settings loaded and one name or more given
HKInit ==
    /\ hk_pc = "start"
    /\ hk_engine \in Engines
    /\ hk_names \in SeqsUpTo(Tasks, MaxHooks) \ {<< >>}
    /\ hk_i = 0
    /\ hk_executed = << >>
    /\ hk_err = <<"none", "", << >>>>
    /\ hk_out = << >>
    /\ hk_exit = -1

\* "if not conf.engine: rich.print(ERROR...); raise typer.Exit(1)"
HKNoEngine ==
    /\ UNCHANGED hk_frame
    /\ hk_pc = "start"
    /\ EngineAbsent(hk_engine)
    /\ hk_out' = Append(hk_out, "failed to load hooks from file")
    /\ hk_exit' = 1
    /\ hk_pc' = "exited"
    /\ UNCHANGED <<hk_engine, hk_names, hk_i, hk_executed, hk_err>>

\* the engine is there: the loop over hook_names starts
HKStart ==
    /\ UNCHANGED hk_frame
    /\ hk_pc = "start"
    /\ ~EngineAbsent(hk_engine)
    /\ hk_i' = 1
    /\ hk_pc' = "loop"
    /\ UNCHANGED <<hk_engine, hk_names, hk_executed, hk_err, hk_out, hk_exit>>

\* one iteration of "for name in hook_names: conf.engine.get_hook(name)()":
\* the Hook is built and called, or its construction raises out of the command
HKCall ==
    /\ UNCHANGED hk_frame
    /\ hk_pc = "loop"
    /\ hk_i <= Len(hk_names)
    /\ LET h == get_hook(hk_engine, hk_names[hk_i]) IN
       IF h[1] = "ok"
       THEN /\ hk_executed' = Append(hk_executed, h[2])
            /\ hk_i' = hk_i + 1
            /\ UNCHANGED <<hk_pc, hk_err, hk_exit>>
       ELSE /\ hk_err' = h
            /\ hk_exit' = 1
            /\ hk_pc' = "raised"
            /\ UNCHANGED <<hk_executed, hk_i>>
    /\ UNCHANGED <<hk_engine, hk_names, hk_out>>

\* the loop is over: the command returns
HKReturn ==
    /\ UNCHANGED hk_frame
    /\ hk_pc = "loop"
    /\ hk_i > Len(hk_names)
    /\ hk_exit' = 0
    /\ hk_pc' = "exited"
    /\ UNCHANGED <<hk_engine, hk_names, hk_i, hk_executed, hk_err, hk_out>>

HKNext ==
    \/ HKNoEngine
    \/ HKStart
    \/ HKCall
    \/ HKReturn

SpecHookCmdInit == HKInit /\ CoreIdle /\ LCIdle /\ CDIdle /\ APIdle
SpecHookCmd == SpecHookCmdInit /\ [][HKNext]_vars

\* C22: a hook command given a name the engine does not define ends with the
\* ValueError "Undefined hook" and has executed no task; a hook command run
\* without an engine ends with status 1 and has executed no task.
C22_UndefinedHookRunsNothing ==
    /\ (hk_pc \in {"raised", "exited"} /\ hk_engine # NoEngine
         /\ \E i \in 1..Len(hk_names) : hk_names[i] \notin hk_engine[2]) =>
           /\ hk_pc = "raised"
           /\ hk_err[2] = "ValueError: undefined hook"
           /\ hk_executed = << >>
    /\ (hk_pc \in {"raised", "exited"} /\ hk_engine = NoEngine) =>
           /\ hk_exit = 1
           /\ hk_executed = << >>

----------------------------------------------------------------------------
(* contrib/local.py: LocalBackend.poll *)

\* number of change notifications awatch delivers before the model ends it
MaxNotes == 2

\* the texts the watched file may hold
FileTexts == {Plain("a"), Plain("b"), Plain("")}

\* LocalBackend.get: "return self.path.read_text(encoding='utf-8')"
LocalGetFirstText(file) == <<"ok", Plain("a")>>
local_get(file) ==
    IF file = NoFile THEN <<"err", "FileNotFoundError">> ELSE <<"ok", file>>

\* poll() was called on a backend whose file may be missing (the constructor
\* only warns about it)
LCInit ==
    /\ lc_pc = "start"
    /\ lc_file \in FileTexts \cup {NoFile}
    /\ lc_notes = 0
    /\ lc_yields = << >>
    /\ lc_err = "none"

\* the yield of a read, or the error of the read raised out of the generator
LCYield(r) ==
    IF r[1] = "ok"
    THEN /\ lc_yields' = Append(lc_yields, r[2])
         /\ lc_pc' = "watching"
         /\ lc_err' = lc_err
    ELSE /\ lc_yields' = lc_yields
         /\ lc_pc' = "raised"
         /\ lc_err' = r[2]

\* "yield self.get()": the first value, before the file is watched
LCFirst ==
    /\ UNCHANGED lc_frame
    /\ lc_pc = "start"
    /\ LCYield(local_get(lc_file))
    /\ UNCHANGED <<lc_file, lc_notes>>

\* "async for _ in awatch(self.path): ...; yield self.get()": a notification
\* arrives, the file is read then and its contents are yielded
LCNotified ==
    /\ UNCHANGED lc_frame
    /\ lc_pc = "watching"
    /\ lc_notes < MaxNotes
    /\ lc_notes' = lc_notes + 1
    /\ LCYield(local_get(lc_file))
    /\ UNCHANGED lc_file

\* the stream of awatch ends: the generator is exhausted
LCStreamEnds ==
    /\ UNCHANGED lc_frame
    /\ lc_pc = "watching"
    /\ lc_pc' = "ended"
    /\ UNCHANGED <<lc_file, lc_notes, lc_yields, lc_err>>

\* another program rewrites or removes the file
LCFileChanges ==
    /\ UNCHANGED lc_frame
    /\ lc_pc \in {"start", "watching"}
    /\ lc_file' \in (FileTexts \cup {NoFile}) \ {lc_file}
    /\ UNCHANGED <<lc_pc, lc_notes, lc_yields, lc_err>>

LCNext ==
    \/ LCFirst
    \/ LCNotified
    \/ LCStreamEnds
    \/ LCFileChanges

SpecLocalInit == LCInit /\ CoreIdle /\ HKIdle /\ CDIdle /\ APIdle
SpecLocal == SpecLocalInit /\ [][LCNext]_vars

\* C24: while every read of the file succeeds, poll has yielded one payload
\* for the start and one for each notification delivered, each of them the
\* contents the file had at the moment of that yield, appended in order; once
\* the stream of notifications has ended nothing more is yielded.
C24_OnePayloadPerNotification ==
    /\ [](lc_pc \in {"watching", "ended"} => Len(lc_yields) = 1 + lc_notes)
    /\ [][/\ ((lc_pc' = "watching" /\ (lc_pc = "start" \/ lc_notes' = lc_notes + 1))
               => (lc_yields' = Append(lc_yields, lc_file)))
           /\ ((lc_yields' # lc_yields)
               => (lc_pc = "start" \/ lc_notes' = lc_notes + 1))
           /\ ((lc_pc = "ended") => (lc_yields' = lc_yields))]_vars

\* C24 happens: the file held "a" at the start and "b" at both notifications,
\* and the stream ended after the second one
C24_Witness ==
    /\ lc_pc = "ended"
    /\ lc_notes = 2
    /\ lc_yields = <<Plain("a"), Plain("b"), Plain("b")>>

----------------------------------------------------------------------------
(* backend.py: loads and dumps applied one after the other *)

\* the texts given to loads: plain texts, the empty text, documents
CodecTexts == {Plain(""), Plain("a"), <<"json", K1>>, <<"yaml", K2>>}

\* the mappings given to dumps: {content: x}, and mappings of other keys
CodecMappings ==
    {[content |-> t] : t \in CodecTexts}
       \cup {K1, [content |-> Plain("a"), k |-> Plain("1")]}

\* the result of loads or dumps as a value of the model
Loaded(r) == IF r[1] = "ok" THEN <<"map", r[2]>> ELSE r
Dumped(r) == IF r[1] = "ok" THEN <<"text", r[2]>> ELSE r

\* loads(fmt, v) on a text, dumps(fmt, v) on a mapping; an error stays as it is
Codec(fmt, v) ==
    CASE v[1] = "text" -> Loaded(loads(fmt, v[2]))
      [] v[1] = "map" -> Dumped(dumps(fmt, v[2]))
      [] OTHER -> v

\* a text or a mapping is about to go through loads and dumps of one format
CDInit ==
    /\ cd_pc = 0
    /\ cd_fmt \in FormatT
    /\ cd_in \in {<<"text", t>> : t \in CodecTexts} \cup {<<"map", d>> : d \in CodecMappings}
    /\ cd_mid = <<"none", "">>
    /\ cd_out = <<"none", "">>

\* the first call: loads of the text given, or dumps of the mapping given
CDFirst ==
    /\ UNCHANGED cd_frame
    /\ cd_pc = 0
    /\ cd_mid' = Codec(cd_fmt, cd_in)
    /\ cd_pc' = 1
    /\ UNCHANGED <<cd_fmt, cd_in, cd_out>>

\* the second call, on the result of the first: the opposite direction
CDSecond ==
    /\ UNCHANGED cd_frame
    /\ cd_pc = 1
    /\ cd_out' = Codec(cd_fmt, cd_mid)
    /\ cd_pc' = 2
    /\ UNCHANGED <<cd_fmt, cd_in, cd_mid>>

CDNext ==
    \/ CDFirst
    \/ CDSecond

SpecCodecInit == CDInit /\ CoreIdle /\ HKIdle /\ LCIdle /\ APIdle
SpecCodec == SpecCodecInit /\ [][CDNext]_vars

\* C25: under the raw format, decoding a text t gives the mapping
\* {content: t} and encoding that mapping gives t again; encoding a mapping
\* {content: x} gives x and decoding that gives {content: x} again.
C25_RawRoundTrips ==
    (cd_fmt = "raw" /\ cd_pc = 2) =>
       /\ cd_in[1] = "text" =>
             /\ cd_mid[1] = "map"
             /\ DOMAIN cd_mid[2] = {"content"}
             /\ cd_mid[2].content = cd_in[2]
             /\ cd_out[1] = "text"
             /\ cd_out[2] = cd_in[2]
       /\ (cd_in[1] = "map" /\ DOMAIN cd_in[2] = {"content"}) =>
             /\ cd_mid[1] = "text"
             /\ cd_mid[2] = cd_in[2].content
             /\ cd_out[1] = "map"
             /\ cd_out[2] = cd_in[2]

\* C25 happens: the text that is a JSON document went through the raw codec
\* and came back
C25_Witness ==
    /\ cd_fmt = "raw"
    /\ cd_pc = 2
    /\ cd_in = <<"text", <<"json", K1>>>>
    /\ cd_mid = <<"map", [content |-> <<"json", K1>>]>>
    /\ cd_out = cd_in

----------------------------------------------------------------------------
(* cli.py: the apply command without --poll *)

\* number of objects of the settings file
MaxKeys == 3

Keys == 1..MaxKeys

\* "keys or conf.settings.OBJECTS": one key or more, each object once
KeyLists ==
    {q \in SeqsUpTo(Keys, MaxKeys) :
        q # << >> /\ \A i \in 1..Len(q) : \A j \in 1..Len(q) : q[i] = q[j] => i = j}

\* the for loop over controllers starts once the list comprehension that
\* builds them is complete
AppliesAsBuilt(built, applied, keys) == applied < built
AppliesNext(built, applied, keys) == built = Len(keys) /\ applied < built

\* the command was called with its keys; each object has its own destination
APInit ==
    /\ ap_pc = "run"
    /\ ap_keys \in KeyLists
    /\ ap_inputs \in [Keys -> [construct : {"ok", "raises"}, write : {"ok", "raises"}]]
    /\ ap_old \in [Keys -> {NoFile, Plain("old")}]
    /\ ap_files = ap_old
    /\ ap_built = 0
    /\ ap_applied = 0
    /\ ap_err = "none"

\* one item of "[BackendController.from_settings(conf, key, handle_key_errors)
\* for key in ...]": the controller is built, or the error leaves the command
APConstruct ==
    /\ UNCHANGED ap_frame
    /\ ap_pc = "run"
    /\ ap_built < Len(ap_keys)
    /\ IF ap_inputs[ap_keys[ap_built + 1]].construct = "ok"
       THEN /\ ap_built' = ap_built + 1
            /\ UNCHANGED <<ap_pc, ap_err>>
       ELSE /\ ap_pc' = "failed"
            /\ ap_err' = "construct"
            /\ ap_built' = ap_built
    /\ UNCHANGED <<ap_keys, ap_inputs, ap_old, ap_files, ap_applied>>

\* one pass of "for ctrl in controllers: ...; ctrl.write()": the destination of
\* the object is written, or write() raises before it writes
APApply ==
    /\ UNCHANGED ap_frame
    /\ ap_pc = "run"
    /\ AppliesNext(ap_built, ap_applied, ap_keys)
    /\ LET key == ap_keys[ap_applied + 1] IN
       IF ap_inputs[key].write = "ok"
       THEN /\ ap_files' = [ap_files EXCEPT ![key] = write_text(ap_files[key], Plain("new"))]
            /\ ap_applied' = ap_applied + 1
            /\ UNCHANGED <<ap_pc, ap_err>>
       ELSE /\ ap_pc' = "failed"
            /\ ap_err' = "apply"
            /\ UNCHANGED <<ap_files, ap_applied>>
    /\ UNCHANGED <<ap_keys, ap_inputs, ap_old, ap_built>>

\* the for loop is over: the command returns
APReturn ==
    /\ UNCHANGED ap_frame
    /\ ap_pc = "run"
    /\ ap_built = Len(ap_keys)
    /\ ap_applied = Len(ap_keys)
    /\ ap_pc' = "done"
    /\ UNCHANGED <<ap_keys, ap_inputs, ap_old, ap_files, ap_built, ap_applied, ap_err>>

APNext ==
    \/ APConstruct
    \/ APApply
    \/ APReturn

SpecApplyInit == APInit /\ CoreIdle /\ HKIdle /\ LCIdle /\ CDIdle
SpecApply == SpecApplyInit /\ [][APNext]_vars

\* C30: apply without --poll builds the controllers of all selected keys
\* before it writes any destination, and then writes them in the order of the
\* keys: when a construction failed no destination was written; when the
\* write() of an object failed, the objects before it are written and the
\* destinations of that object and of those after it are as they were;
\* objects that were not selected are never written.
C30_ConstructAllThenApplyInOrder ==
    /\ ap_applied > 0 => ap_built = Len(ap_keys)
    /\ ap_err = "construct" => (ap_files = ap_old /\ ap_applied = 0)
    /\ \A i \in 1..Len(ap_keys) :
          ap_files[ap_keys[i]] =
             IF i <= ap_applied THEN Plain("new") ELSE ap_old[ap_keys[i]]
    /\ \A k \in Keys :
          (\A i \in 1..Len(ap_keys) : ap_keys[i] # k) => ap_files[k] = ap_old[k]
    /\ ap_err = "apply" =>
          /\ ap_inputs[ap_keys[ap_applied + 1]].write = "raises"
          /\ \A i \in 1..ap_applied : ap_inputs[ap_keys[i]].write = "ok"

\* C30 happens: of three objects the first was written, the write() of the
\* second raised, and the third, which had a destination file, kept it
C30_Witness ==
    /\ Len(ap_keys) = 3
    /\ ap_pc = "failed"
    /\ ap_err = "apply"
    /\ ap_applied = 1
    /\ ap_files[ap_keys[1]] = Plain("new")
    /\ ap_old[ap_keys[3]] = Plain("old")
    /\ ap_files[ap_keys[3]] = Plain("old")

====
